---- MODULE Spec2Model ----
(***************************************************************************)
(* A model of OrderConfirmationModal (src/unnamed/part_000): the order     *)
(* form state, the terminal actions and their callbacks, the per-product   *)
(* price derivations of ProductRow and the order-level aggregates.         *)
(*                                                                         *)
(* JavaScript numbers are modelled as exact rationals extended with NaN    *)
(* and +/-Infinity (IEEE rounding and the sign of zero are not modelled).  *)
(* JavaScript strings the code inspects (orderName, notes) are sequences   *)
(* of one-character strings; opaque strings are TLA+ strings.              *)
(***************************************************************************)
EXTENDS Integers, Sequences, FiniteSets, TLC

VARIABLES products, userRole, open, orderData, view, calls, lastEvent

vars == <<products, userRole, open, orderData, view, calls, lastEvent>>

----------------------------------------------------------------------------
(* JavaScript numbers                                                      *)

Abs(i) == IF i < 0 THEN -i ELSE i

Sign(i) == IF i < 0 THEN -1 ELSE IF i = 0 THEN 0 ELSE 1

RECURSIVE GCD(_, _)
GCD(a, b) == IF b = 0 THEN a ELSE GCD(b, a % b)

\* the value `undefined` of an optional field
Undefined == [k |-> "undefined", n |-> 0, d |-> 1]

NaN == [k |-> "NaN", n |-> 0, d |-> 1]

\* Infinity (s = 1) and -Infinity (s = -1)
Inf(s) == [k |-> "Infinity", n |-> s, d |-> 1]

\* the finite number n/d, in lowest terms with a positive denominator
Num(n, d) ==
    LET g == GCD(Abs(n), Abs(d))
        s == IF d < 0 THEN -1 ELSE 1
    IN  [k |-> "num", n |-> (s * n) \div g, d |-> (s * d) \div g]

N(i) == Num(i, 1)

IsFinite(x) == x.k = "num"

IsNaN(x) == x.k = "NaN"

\* the sign of a finite or infinite number
SignOf(x) == Sign(x.n)

\* a + b
Add(a, b) ==
    IF IsNaN(a) \/ IsNaN(b) THEN NaN
    ELSE IF IsFinite(a) /\ IsFinite(b) THEN Num(a.n * b.d + b.n * a.d, a.d * b.d)
    ELSE IF IsFinite(a) THEN b
    ELSE IF IsFinite(b) THEN a
    ELSE IF a.n = b.n THEN a ELSE NaN

\* -a
Neg(a) == IF IsNaN(a) THEN NaN ELSE [a EXCEPT !.n = -a.n]

\* a - b
Sub(a, b) == Add(a, Neg(b))

\* a * b
Mul(a, b) ==
    IF IsNaN(a) \/ IsNaN(b) THEN NaN
    ELSE IF IsFinite(a) /\ IsFinite(b) THEN Num(a.n * b.n, a.d * b.d)
    ELSE IF SignOf(a) * SignOf(b) = 0 THEN NaN
    ELSE Inf(SignOf(a) * SignOf(b))

\* a / b (a zero divisor is +0)
Div(a, b) ==
    IF IsNaN(a) \/ IsNaN(b) THEN NaN
    ELSE IF IsFinite(a) /\ IsFinite(b)
         THEN IF b.n # 0 THEN Num(a.n * b.d, a.d * b.n)
              ELSE IF a.n = 0 THEN NaN ELSE Inf(SignOf(a))
    ELSE IF IsFinite(a) THEN N(0)
    ELSE IF IsFinite(b) THEN Inf(SignOf(a) * (IF SignOf(b) < 0 THEN -1 ELSE 1))
    ELSE NaN

\* a > 0
GtZero(a) == ~IsNaN(a) /\ SignOf(a) > 0

\* the truthiness of an optional number: undefined, 0 and NaN are falsy
Truthy(x) == x.k \in {"num", "Infinity"} /\ x.n # 0

----------------------------------------------------------------------------
(* JavaScript strings                                                      *)

\* the characters String.prototype.trim strips, as far as the model has them
Whitespace == {" "}

RECURSIVE TrimStart(_)
TrimStart(s) ==
    IF s # <<>> /\ Head(s) \in Whitespace THEN TrimStart(Tail(s)) ELSE s

RECURSIVE TrimEnd(_)
TrimEnd(s) ==
    IF s # <<>> /\ s[Len(s)] \in Whitespace
    THEN TrimEnd(SubSeq(s, 1, Len(s) - 1)) ELSE s

\* s.trim()
Trim(s) == TrimEnd(TrimStart(s))

\* the truthiness of a string: only '' is falsy
TruthyStr(s) == s # <<>>

----------------------------------------------------------------------------
(* ProductItem values                                                      *)

\* the largest product list the parent passes in
MaxProducts == 2

\* priceBreakdowns?: PriceBreakdown[]
NoBreakdowns == [present |-> FALSE, tiers |-> <<>>]

Breakdowns(tiers) == [present |-> TRUE, tiers |-> tiers]

PriceBreakdown(q, u, s, k) ==
    [quantity |-> N(q), unitPrice |-> N(u), supplier |-> s, stock |-> N(k)]

ProductItem(nm, cd, sup, q, u, pb, avg, pub, v) ==
    [id |-> "", name |-> nm, code |-> cd, supplier |-> sup, quantity |-> q,
     unitPrice |-> u, priceBreakdowns |-> pb, averagePrice |-> avg,
     publicPrice |-> pub, vat |-> v]

\* products over every present/absent/zero combination of the optional fields
BaseProducts ==
    { ProductItem("Base", "B-0", "s1", N(2), N(10), NoBreakdowns, a, p, v) :
        a \in {Undefined, N(0), N(6)},
        p \in {Undefined, N(0), N(15)},
        v \in {Undefined, N(0), N(20), N(-100)} }

\* the products of the worked examples, and one priced above its public price
ExampleA ==
    ProductItem("Gloves", "G-1", "s2", N(3), N(10),
                Breakdowns(<<PriceBreakdown(3, 10, "s2", 40)>>),
                Undefined, N(15), N(20))

ExampleB ==
    ProductItem("Masks", "M-1", "s1", N(2), N(5),
                Breakdowns(<<PriceBreakdown(1, 5, "s1", 1),
                             PriceBreakdown(1, 5, "s3", 9)>>),
                N(6), Undefined, Undefined)

ExampleC ==
    ProductItem("Swabs", "S-1", "s2", N(1), N(8), NoBreakdowns,
                N(8), Undefined, Undefined)

ExampleD ==
    ProductItem("Vials", "V-1", "s3", N(1), N(20), NoBreakdowns,
                N(25), N(16), N(0))

ExampleProducts == {ExampleA, ExampleB, ExampleC, ExampleD}

\* a list of the given products, each with the unique id of its position
WithIds(ps) == [i \in 1..Len(ps) |-> [ps[i] EXCEPT !.id = "p" \o ToString(i)]]

SeqsUpTo(S, n) == UNION {[1..m -> S] : m \in 0..n}

ProductLists ==
    {WithIds(ps) : ps \in SeqsUpTo(BaseProducts \cup ExampleProducts, MaxProducts)}

\* the product lists the form specification is run on
FormProductLists ==
    {WithIds(ps) : ps \in {<<>>, <<ExampleA, ExampleB>>}}

----------------------------------------------------------------------------
(* ProductRow: the per-product derivations                                 *)

totalPrice(product) == Mul(product.quantity, product.unitPrice)

savingsVsAverage(product) ==
    IF Truthy(product.averagePrice)
    THEN Mul(Sub(product.averagePrice, product.unitPrice), product.quantity)
    ELSE N(0)

grossDiscount(product) ==
    IF Truthy(product.publicPrice)
    THEN Sub(product.publicPrice, product.unitPrice)
    ELSE N(0)

grossDiscountPercent(product) ==
    IF Truthy(product.publicPrice)
    THEN Mul(Div(grossDiscount(product), product.publicPrice), N(100))
    ELSE N(0)

netPublicPrice(product) ==
    IF Truthy(product.publicPrice) /\ Truthy(product.vat)
    THEN Div(product.publicPrice, Add(N(1), Div(product.vat, N(100))))
    ELSE N(0)

netDiscount(product) ==
    IF Truthy(netPublicPrice(product))
    THEN Sub(netPublicPrice(product), product.unitPrice)
    ELSE N(0)

netDiscountPercent(product) ==
    IF Truthy(netPublicPrice(product))
    THEN Mul(Div(netDiscount(product), netPublicPrice(product)), N(100))
    ELSE N(0)

\* the values one ProductRow computes
ProductRow(product) ==
    [totalPrice |-> totalPrice(product),
     savingsVsAverage |-> savingsVsAverage(product),
     grossDiscount |-> grossDiscount(product),
     grossDiscountPercent |-> grossDiscountPercent(product),
     netPublicPrice |-> netPublicPrice(product),
     netDiscount |-> netDiscount(product),
     netDiscountPercent |-> netDiscountPercent(product)]

----------------------------------------------------------------------------
(* The order-level aggregates                                              *)

\* ps without its last element, and that element: reduce folds from the left
Front(ps) == SubSeq(ps, 1, Len(ps) - 1)

Last(ps) == ps[Len(ps)]

uniqueSuppliers(ps) == Cardinality({ps[i].supplier : i \in 1..Len(ps)})

\* products.reduce((sum, product) => sum + product.quantity, 0)
RECURSIVE totalQuantity(_)
totalQuantity(ps) ==
    IF ps = <<>> THEN N(0)
    ELSE Add(totalQuantity(Front(ps)), Last(ps).quantity)

\* totalSavingsVsAverage whose callback returns 0, not the running sum, for a
\* product without an averagePrice
RECURSIVE totalSavingsVsAverageResets(_)
totalSavingsVsAverageResets(ps) ==
    IF ps = <<>> THEN N(0)
    ELSE LET sum == totalSavingsVsAverageResets(Front(ps))
             product == Last(ps)
         IN  IF Truthy(product.averagePrice)
             THEN Add(sum, Mul(Sub(product.averagePrice, product.unitPrice),
                               product.quantity))
             ELSE N(0)

RECURSIVE totalSavingsVsAverage(_)
totalSavingsVsAverage(ps) ==
    IF ps = <<>> THEN N(0)
    ELSE LET sum == totalSavingsVsAverage(Front(ps))
             product == Last(ps)
         IN  IF Truthy(product.averagePrice)
             THEN Add(sum, Mul(Sub(product.averagePrice, product.unitPrice),
                               product.quantity))
             ELSE sum

\* the reduce of averageDiscountPercent: the sum of the discounts
RECURSIVE discountSum(_)
discountSum(ps) ==
    IF ps = <<>> THEN N(0)
    ELSE LET sum == discountSum(Front(ps))
             product == Last(ps)
         IN  IF Truthy(product.publicPrice)
             THEN Add(sum, Mul(Div(Sub(product.publicPrice, product.unitPrice),
                                   product.publicPrice), N(100)))
             ELSE sum

\* products.filter(p => p.publicPrice).length
publicPriceCount(ps) == Cardinality({i \in 1..Len(ps) : Truthy(ps[i].publicPrice)})

averageDiscountPercent(ps) == Div(discountSum(ps), N(publicPriceCount(ps)))

\* whether the "Savings vs Avg" row of the summary is rendered
showSavingsVsAvg(ps) == GtZero(totalSavingsVsAverage(ps))

\* showAvgDiscount with the guard written as "not (value <= 0)", which NaN passes
showAvgDiscountNotNonPositive(ps) ==
    ~(~IsNaN(averageDiscountPercent(ps)) /\ SignOf(averageDiscountPercent(ps)) <= 0)

\* whether the "Avg Discount" row of the summary is rendered
showAvgDiscount(ps) ==
    ~IsNaN(averageDiscountPercent(ps)) /\ GtZero(averageDiscountPercent(ps))

----------------------------------------------------------------------------
(* OrderData: the form state                                               *)

\* the longest order name typed
MaxLen == 2

Chars == {" ", "a"}

\* new Date().toISOString().split('T')[0] at the time the component mounts
Today == "today"

Dates == {Today, "2026-12-24"}

Priorities == {"standard", "urgent", "scheduled"}

\* the MenuItems of the Payment Method select
PaymentMethods ==
    {"Invoice 30 days", "Invoice 60 days", "Credit Card", "Bank Transfer"}

\* the fields bound to handleChange and the values typed into each
TextFields == {"orderName", "expectedDeliveryDate", "notes"}

TextValues(name) ==
    CASE name = "orderName" -> SeqsUpTo(Chars, MaxLen)
      [] name = "notes" -> {<<>>, <<"a">>}
      [] name = "expectedDeliveryDate" -> Dates

\* the fields bound to handleCheckboxChange
CheckboxFields == {"saveAsTemplate", "notifyOnDelivery"}

OrderDataFields ==
    {"orderName", "expectedDeliveryDate", "notes", "priority", "paymentMethod",
     "saveAsTemplate", "notifyOnDelivery"}

\* the initial value of useState<OrderData>
InitialOrderData ==
    [orderName |-> <<>>,
     expectedDeliveryDate |-> Today,
     notes |-> <<>>,
     priority |-> "urgent",
     paymentMethod |-> "Invoice 30 days",
     saveAsTemplate |-> FALSE,
     notifyOnDelivery |-> FALSE]

\* setOrderData(prev => ({ ...prev, [name]: value }))
handleChange(prev, name, value) == [prev EXCEPT ![name] = value]

\* setOrderData(prev => ({ ...prev, [name]: checked }))
handleCheckboxChange(prev, name, checked) == [prev EXCEPT ![name] = checked]

\* setOrderData(prev => ({ ...prev, [name as string]: value }))
handleSelectChange(prev, name, value) == [prev EXCEPT ![name] = value]

\* handleRadioChange writing the value to the field of the select
handleRadioChangeWrongField(prev, value) == [prev EXCEPT !.paymentMethod = value]

\* setOrderData(prev => ({ ...prev, priority: e.target.value }))
handleRadioChange(prev, value) == [prev EXCEPT !.priority = value]

----------------------------------------------------------------------------
(* What one render pass shows, and what the buttons do                     *)

isAdmin(role) == role = "Admin"

\* submitDisabled without the trim
submitDisabledNoTrim(od) == ~TruthyStr(od.orderName)

\* disabled={!orderData.orderName.trim()} of the Submit Order button
submitDisabled(od) == ~TruthyStr(Trim(od.orderName))

NotRendered == [rendered |-> FALSE]

Render(ps, od, role) ==
    [rendered |-> TRUE,
     isAdmin |-> isAdmin(role),
     productCount |-> Len(ps),
     totalQuantity |-> totalQuantity(ps),
     uniqueSuppliers |-> uniqueSuppliers(ps),
     totalSavingsVsAverage |-> totalSavingsVsAverage(ps),
     averageDiscountPercent |-> averageDiscountPercent(ps),
     showSavingsVsAvg |-> showSavingsVsAvg(ps),
     showAvgDiscount |-> showAvgDiscount(ps),
     rows |-> [i \in 1..Len(ps) |-> ProductRow(ps[i])],
     submitDisabled |-> submitDisabled(od)]

\* one invocation of a callback prop or of the export sink
Call(fn, args) == [fn |-> fn, args |-> args]

\* SubmitOrderClick closing the modal before it hands the order over
SubmitOrderClickClosesFirst(od) ==
    <<Call("onClose", <<>>), Call("onSubmitOrder", <<od>>)>>

\* onClick of the Submit Order button
SubmitOrderClick(od) == <<Call("onSubmitOrder", <<od>>), Call("onClose", <<>>)>>

\* SaveDraftClick that saves the draft and leaves the modal open
SaveDraftClickNoClose == <<Call("onSaveAsDraft", <<>>)>>

\* onClick of the Save Draft button
SaveDraftClick == <<Call("onSaveAsDraft", <<>>), Call("onClose", <<>>)>>

\* DismissClick saving a draft before it closes
DismissClickSavesDraft == <<Call("onSaveAsDraft", <<>>), Call("onClose", <<>>)>>

\* onClose of the Dialog and onClick of the close IconButton
DismissClick == <<Call("onClose", <<>>)>>

UntitledOrder ==
    <<"U", "n", "t", "i", "t", "l", "e", "d", " ", "O", "r", "d", "e", "r">>

\* exportProducts copying an optional number only when it is truthy
exportProductsDropsZero(ps) ==
    LET kept(x) == IF Truthy(x) THEN x ELSE Undefined
    IN  [i \in 1..Len(ps) |->
            [id |-> ps[i].id,
             name |-> ps[i].name,
             code |-> ps[i].code,
             quantity |-> ps[i].quantity,
             unitPrice |-> ps[i].unitPrice,
             averagePrice |-> kept(ps[i].averagePrice),
             priceBreakdowns |-> ps[i].priceBreakdowns,
             publicPrice |-> kept(ps[i].publicPrice),
             vat |-> kept(ps[i].vat)]]

\* the rows handleExport builds
exportProducts(ps) ==
    [i \in 1..Len(ps) |->
        [id |-> ps[i].id,
         name |-> ps[i].name,
         code |-> ps[i].code,
         quantity |-> ps[i].quantity,
         unitPrice |-> ps[i].unitPrice,
         averagePrice |-> ps[i].averagePrice,
         priceBreakdowns |-> ps[i].priceBreakdowns,
         publicPrice |-> ps[i].publicPrice,
         vat |-> ps[i].vat]]

\* handleExport leaving the per-tier supplier names out for every role but Admin
handleExportGated(od, ps, format, role) ==
    LET orderName == IF TruthyStr(od.orderName) THEN od.orderName ELSE UntitledOrder
        hidden(pb) ==
            [pb EXCEPT !.tiers = [t \in 1..Len(pb.tiers) |->
                                     [pb.tiers[t] EXCEPT !.supplier = ""]]]
        rows == exportProducts(ps)
        gated == [i \in 1..Len(rows) |->
                    [rows[i] EXCEPT !.priceBreakdowns =
                        IF isAdmin(role) THEN @ ELSE hidden(@)]]
    IN  <<Call("exportOrderSummary", <<orderName, gated, format, role>>)>>

\* handleExport(format)
handleExport(od, ps, format, role) ==
    LET orderName == IF TruthyStr(od.orderName) THEN od.orderName ELSE UntitledOrder
    IN  <<Call("exportOrderSummary", <<orderName, exportProducts(ps), format, role>>)>>

Event(kind, name, value) == [kind |-> kind, name |-> name, value |-> value]

----------------------------------------------------------------------------
(* The component as a state machine                                        *)

\* the component is constructed with its props; nothing is rendered yet
InitWith(lists) ==
    /\ products \in lists
    /\ userRole \in {"Buyer", "Admin"}
    /\ open = TRUE
    /\ orderData = InitialOrderData
    /\ view = NotRendered
    /\ calls = <<>>
    /\ lastEvent = Event("mount", "", FALSE)

Init == InitWith(FormProductLists)

InitMath ==
    /\ InitWith(ProductLists)
    /\ userRole = "Buyer"

\* the first render pass of the function component
FirstRender ==
    /\ ~view.rendered
    /\ view' = Render(products, orderData, userRole)
    /\ lastEvent' = Event("render", "", FALSE)
    /\ UNCHANGED <<products, userRole, open, orderData, calls>>

\* the modal's controls can be used: it is rendered and the Dialog is open
Interactive == view.rendered /\ open

\* a state update followed by the render pass it schedules; products and
\* userRole are unchanged, so the pass recomputes the same aggregates and rows
\* and only what is derived from orderData can differ
SetOrderData(od, ev) ==
    /\ orderData' = od
    /\ view' = [view EXCEPT !.submitDisabled = submitDisabled(od)]
    /\ calls' = <<>>
    /\ lastEvent' = ev
    /\ UNCHANGED <<products, userRole, open>>

\* an event handler that invokes callbacks and updates no state
Invoke(cs, ev) ==
    /\ calls' = cs
    /\ lastEvent' = ev
    /\ UNCHANGED <<products, userRole, open, orderData, view>>

TextChange ==
    /\ Interactive
    /\ \E name \in TextFields : \E value \in TextValues(name) :
          SetOrderData(handleChange(orderData, name, value),
                       Event("change", name, value))

CheckboxChange ==
    /\ Interactive
    /\ \E name \in CheckboxFields : \E checked \in BOOLEAN :
          SetOrderData(handleCheckboxChange(orderData, name, checked),
                       Event("checkbox", name, checked))

SelectChange ==
    /\ Interactive
    /\ \E value \in PaymentMethods :
          SetOrderData(handleSelectChange(orderData, "paymentMethod", value),
                       Event("select", "paymentMethod", value))

RadioChange ==
    /\ Interactive
    /\ \E value \in Priorities :
          SetOrderData(handleRadioChange(orderData, value),
                       Event("radio", "priority", value))

SubmitOrder ==
    /\ Interactive
    /\ ~view.submitDisabled
    /\ Invoke(SubmitOrderClick(orderData), Event("submit", "", FALSE))

SaveDraft ==
    /\ Interactive
    /\ Invoke(SaveDraftClick, Event("saveDraft", "", FALSE))

Dismiss ==
    /\ Interactive
    /\ Invoke(DismissClick, Event("dismiss", "", FALSE))

Export ==
    /\ Interactive
    /\ \E format \in {"csv", "xlsx"} :
          Invoke(handleExport(orderData, products, format, userRole),
                 Event("export", "", FALSE))

\* the parent re-renders the mounted component with another `open` prop;
\* the state held by useState is kept
ParentSetOpen ==
    /\ view.rendered
    /\ open' = ~open
    /\ view' = [view EXCEPT !.submitDisabled = submitDisabled(orderData)]
    /\ calls' = <<>>
    /\ lastEvent' = Event("props", "open", ~open)
    /\ UNCHANGED <<products, userRole, orderData>>

\* the parent unmounts the component and mounts it again, open
Remount ==
    /\ view.rendered
    /\ open' = TRUE
    /\ orderData' = InitialOrderData
    /\ view' = [view EXCEPT !.submitDisabled = submitDisabled(InitialOrderData)]
    /\ calls' = <<>>
    /\ lastEvent' = Event("mount", "", FALSE)
    /\ UNCHANGED <<products, userRole>>

Next ==
    \/ FirstRender
    \/ TextChange
    \/ CheckboxChange
    \/ SelectChange
    \/ RadioChange
    \/ SubmitOrder
    \/ SaveDraft
    \/ Dismiss
    \/ Export
    \/ ParentSetOpen
    \/ Remount

Spec == Init /\ [][Next]_vars

\* the derivations applied to every product list of the bounded domain
NextMath == FirstRender

SpecMath == InitMath /\ [][NextMath]_vars

\* the export buttons used on every product list of the bounded domain
InitExport == InitMath

NextExport == FirstRender \/ Export

SpecExport == InitExport /\ [][NextExport]_vars

----------------------------------------------------------------------------
(* Vocabulary of the properties                                            *)

\* an optional field is present, whatever its value
Present(x) == x # Undefined

Indices == 1..Len(products)

RowFields ==
    {"totalPrice", "savingsVsAverage", "grossDiscount", "grossDiscountPercent",
     "netPublicPrice", "netDiscount", "netDiscountPercent"}

RECURSIVE SumOf(_)
SumOf(xs) == IF xs = <<>> THEN N(0) ELSE Add(Head(xs), SumOf(Tail(xs)))

\* a string with no character other than whitespace
IsBlank(s) == \A i \in 1..Len(s) : s[i] = " "

Invoked(fn) == \E i \in 1..Len(calls) : calls[i].fn = fn

InputKinds == {"change", "checkbox", "select", "radio"}

----------------------------------------------------------------------------
(* Properties of the aggregates and of the per-product derivations,        *)
(* checked under SpecMath                                                  *)

\* C1 as stated: over a product list in which no product has a publicPrice
\* (the empty list included) averageDiscountPercent is never NaN.
C1_AverageDiscountNeverNaN ==
    (view.rendered /\ \A i \in Indices : ~Present(products[i].publicPrice))
        => ~IsNaN(view.averageDiscountPercent)

\* C1 as amended: over such a list averageDiscountPercent is NaN (0/0), and
\* it is reported as not applicable: the "Avg Discount" row is not rendered.
C1_NaNIsNotRendered ==
    (view.rendered /\ \A i \in Indices : ~Present(products[i].publicPrice))
        => IsNaN(view.averageDiscountPercent) /\ ~view.showAvgDiscount

C1_Witness ==
    /\ view.rendered
    /\ Len(products) = 2
    /\ \A i \in Indices : ~Present(products[i].publicPrice)
    /\ Present(products[1].vat)
    /\ IsNaN(view.averageDiscountPercent)
    /\ ~view.showAvgDiscount

\* C2: for every product each of the seven derived values is a finite number,
\* never NaN and never +/-Infinity.
C2_DerivedValuesFinite ==
    view.rendered =>
        \A i \in Indices : \A f \in RowFields : IsFinite(view.rows[i][f])

\* C8: netPublicPrice is publicPrice / (1 + vat/100) exactly when publicPrice
\* and vat are both present (a present vat of 0 included) and the sentinel 0
\* otherwise; netDiscount and netDiscountPercent follow from it and are 0 when
\* it is not applicable.
C8_NetPublicPrice ==
    view.rendered =>
        \A i \in Indices :
            LET p == products[i]
                row == view.rows[i]
                both == Present(p.publicPrice) /\ Present(p.vat)
                net == Div(p.publicPrice, Add(N(1), Div(p.vat, N(100))))
            IN  /\ row.netPublicPrice = IF both THEN net ELSE N(0)
                /\ ~both => row.netDiscount = N(0) /\ row.netDiscountPercent = N(0)
                /\ (both /\ net # N(0)) =>
                      /\ row.netDiscount = Sub(net, p.unitPrice)
                      /\ row.netDiscountPercent =
                            Mul(Div(Sub(net, p.unitPrice), net), N(100))

\* C9: grossDiscount is 0 when publicPrice is absent and publicPrice -
\* unitPrice whenever it is present (a present 0 included); grossDiscountPercent
\* is 0 when publicPrice is absent or 0 and grossDiscount / publicPrice * 100
\* otherwise.
C9_GrossDiscount ==
    view.rendered =>
        \A i \in Indices :
            LET p == products[i]
                row == view.rows[i]
                gross == IF Present(p.publicPrice)
                         THEN Sub(p.publicPrice, p.unitPrice) ELSE N(0)
            IN  /\ row.grossDiscount = gross
                /\ row.grossDiscountPercent =
                      IF ~Present(p.publicPrice) \/ p.publicPrice = N(0)
                      THEN N(0)
                      ELSE Mul(Div(gross, p.publicPrice), N(100))

\* C10: totalSavingsVsAverage is the signed sum over all products of
\* (averagePrice - unitPrice) * quantity where averagePrice is present (a
\* present 0 included) and of 0 where it is absent, and equals the sum of the
\* savingsVsAverage values the product rows compute.
C10_TotalSavingsVsAverage ==
    view.rendered =>
        LET claimed(p) == IF Present(p.averagePrice)
                          THEN Mul(Sub(p.averagePrice, p.unitPrice), p.quantity)
                          ELSE N(0)
        IN  /\ view.totalSavingsVsAverage =
                  SumOf([i \in Indices |-> claimed(products[i])])
            /\ view.totalSavingsVsAverage =
                  SumOf([i \in Indices |-> view.rows[i].savingsVsAverage])

----------------------------------------------------------------------------
(* Properties of the form and of the terminal actions, checked under Spec  *)

\* C3: the Submit Order button is enabled exactly when orderName has a
\* character that is not whitespace, so onSubmitOrder is never invoked while
\* orderName is empty or whitespace-only.
C3_SubmitNeedsOrderName ==
    /\ view.rendered => (view.submitDisabled <=> IsBlank(orderData.orderName))
    /\ Interactive => ((ENABLED SubmitOrder) <=> ~IsBlank(orderData.orderName))
    /\ Invoked("onSubmitOrder") => ~IsBlank(orderData.orderName)

C3_Witness ==
    /\ Interactive
    /\ lastEvent = Event("change", "orderName", <<" ">>)
    /\ orderData.orderName = <<" ">>
    /\ view.submitDisabled

\* C4: a submit invokes onSubmitOrder exactly once, with the seven fields of
\* the form state at that moment, and then onClose exactly once.
C4_SubmitHandsOverFormState ==
    [][lastEvent'.kind = "submit" =>
          /\ calls' = <<[fn |-> "onSubmitOrder", args |-> <<orderData>>],
                        [fn |-> "onClose", args |-> <<>>]>>
          /\ orderData' = orderData]_vars

C4_Witness ==
    /\ lastEvent.kind = "submit"
    /\ Len(calls) = 2
    /\ calls[1].args = <<orderData>>
    /\ \A f \in OrderDataFields : orderData[f] # InitialOrderData[f]

\* C5: Save Draft is enabled whenever the modal can be used, also with a blank
\* orderName; it invokes onSaveAsDraft with no arguments and then onClose, each
\* exactly once, and never onSubmitOrder.
C5_SaveDraftAlwaysEnabled ==
    /\ Interactive => ENABLED SaveDraft
    /\ lastEvent.kind = "saveDraft" =>
          calls = <<[fn |-> "onSaveAsDraft", args |-> <<>>],
                    [fn |-> "onClose", args |-> <<>>]>>

C5_Witness ==
    /\ lastEvent.kind = "saveDraft"
    /\ orderData.orderName = <<" ">>
    /\ view.submitDisabled
    /\ Len(calls) = 2

\* C6: every input event is accepted whenever the modal can be used, sets the
\* field it names to the event's value and leaves the six other fields as
\* they were.
C6_InputUpdatesOneField ==
    /\ [](Interactive =>
             /\ ENABLED TextChange
             /\ ENABLED CheckboxChange
             /\ ENABLED SelectChange
             /\ ENABLED RadioChange)
    /\ [][lastEvent'.kind \in InputKinds =>
             /\ orderData'[lastEvent'.name] = lastEvent'.value
             /\ \A f \in OrderDataFields \ {lastEvent'.name} :
                   orderData'[f] = orderData[f]]_vars

C6_Witness ==
    /\ lastEvent = Event("radio", "priority", "scheduled")
    /\ orderData.priority = "scheduled"
    /\ orderData.orderName = <<"a">>
    /\ orderData.notes = <<"a">>
    /\ orderData.saveAsTemplate

\* C7: whenever the modal is opened again the form state equals the defaults:
\* edits of a session closed without submit or draft are discarded.
C7_ReopenedFormIsDefault ==
    [][(~open /\ open') => orderData' = InitialOrderData]_vars

----------------------------------------------------------------------------
(* Further properties of the aggregates, checked under SpecMath            *)

\* C11: over a product list with at least one product that has a publicPrice,
\* averageDiscountPercent is the sum of grossDiscountPercent over exactly the
\* products that have a publicPrice, divided by their number; a product whose
\* present publicPrice is 0 is one of them and contributes 0.
C11_AverageOverPricedProducts ==
    (view.rendered /\ \E i \in Indices : Present(products[i].publicPrice)) =>
        LET eligible == {i \in Indices : Present(products[i].publicPrice)}
            percent(p) == IF p.publicPrice = N(0) THEN N(0)
                          ELSE Mul(Div(Sub(p.publicPrice, p.unitPrice),
                                       p.publicPrice), N(100))
            share(i) == IF i \in eligible THEN percent(products[i]) ELSE N(0)
        IN  view.averageDiscountPercent =
                Div(SumOf([i \in Indices |-> share(i)]), N(Cardinality(eligible)))


\* the permutations of 1..n, and a list rearranged by one
PermutationsOf(n) ==
    {f \in [1..n -> 1..n] : \A i, j \in 1..n : f[i] = f[j] => i = j}

Permuted(ps, f) == [i \in 1..Len(ps) |-> ps[f[i]]]

----------------------------------------------------------------------------
(* Properties of the export, checked under SpecExport and Spec             *)

ExportRowFields ==
    {"id", "name", "code", "quantity", "unitPrice", "averagePrice",
     "priceBreakdowns", "publicPrice", "vat"}

\* the last handler run was an export, which made one call of the sink
Exported ==
    /\ lastEvent.kind = "export"
    /\ Len(calls) = 1
    /\ calls[1].fn = "exportOrderSummary"
    /\ Len(calls[1].args) = 4

ExportedTitle == calls[1].args[1]

ExportedRows == calls[1].args[2]

ExportedFormat == calls[1].args[3]

ExportedRole == calls[1].args[4]

\* C13: in either format an export hands the sink one row per product, in
\* list order; each row carries the product's id, name, code, quantity and
\* unitPrice unchanged, and averagePrice, priceBreakdowns, publicPrice and vat
\* with the product's value where present (a present 0 stays 0) and absent
\* where absent; the empty list gives the empty row sequence.
C13_ExportRowsMirrorProducts ==
    lastEvent.kind = "export" =>
        /\ Exported
        /\ ExportedFormat \in {"csv", "xlsx"}
        /\ Len(ExportedRows) = Len(products)
        /\ \A i \in Indices :
              /\ DOMAIN ExportedRows[i] = ExportRowFields
              /\ \A f \in ExportRowFields : ExportedRows[i][f] = products[i][f]

C13_Witness ==
    /\ Exported
    /\ ExportedFormat = "csv"
    /\ Len(ExportedRows) = 2
    /\ ExportedRows[1].publicPrice = N(0)
    /\ ExportedRows[1].vat = Undefined
    /\ ExportedRows[2].priceBreakdowns.present
    /\ ExportedRows[2].averagePrice = N(6)


Roles == {"Buyer", "Admin"}

\* C14: every export passes the modal's userRole to the sink unchanged, and
\* the rows do not depend on it: for any role the adapter builds the rows it
\* built for this one, priceBreakdowns with their per-tier supplier names
\* included.
C14_RowsIndependentOfRole ==
    lastEvent.kind = "export" =>
        /\ Exported
        /\ ExportedRole = userRole
        /\ \A role \in Roles :
              LET other == handleExport(orderData, products, ExportedFormat, role)
              IN  /\ other[1].args[2] = ExportedRows
                  /\ other[1].args[4] = role
        /\ \A i \in Indices :
              ExportedRows[i].priceBreakdowns = products[i].priceBreakdowns

C14_Witness ==
    /\ Exported
    /\ userRole = "Buyer"
    /\ ExportedRole = "Buyer"
    /\ Len(ExportedRows) = 2
    /\ ExportedRows[2].priceBreakdowns.present
    /\ ExportedRows[2].priceBreakdowns.tiers[2].supplier = "s3"


\* C15: the title an export passes to the sink is "Untitled Order" whenever
\* orderName is blank (empty or whitespace-only) and orderName otherwise.
C15_BlankNameExportsUntitled ==
    lastEvent.kind = "export" =>
        /\ Exported
        /\ ExportedTitle = IF IsBlank(orderData.orderName)
                           THEN UntitledOrder ELSE orderData.orderName


----------------------------------------------------------------------------
(* Frame of the export and of the dismissal, checked under Spec            *)

\* C16: an export leaves every OrderData field and the product list as they
\* were and invokes none of onClose, onSaveAsDraft and onSubmitOrder, so the
\* modal stays open and can still be submitted; a dismissal invokes onClose
\* and nothing else; onSubmitOrder and onSaveAsDraft are invoked only by the
\* Submit Order and the Save Draft button.
C16_ExportAndDismissFrame ==
    /\ [](/\ lastEvent.kind = "export" =>
                /\ Exported
                /\ Interactive
                /\ ~IsBlank(orderData.orderName) => ENABLED SubmitOrder
          /\ lastEvent.kind = "dismiss" =>
                calls = <<[fn |-> "onClose", args |-> <<>>]>>
          /\ Invoked("onSubmitOrder") => lastEvent.kind = "submit"
          /\ Invoked("onSaveAsDraft") => lastEvent.kind = "saveDraft")
    /\ [][lastEvent'.kind \in {"export", "dismiss"} =>
             /\ orderData' = orderData
             /\ products' = products
             /\ open' = open]_vars

C16_Witness ==
    /\ Exported
    /\ Len(products) = 2
    /\ orderData.orderName = <<"a">>
    /\ orderData.notes = <<"a">>
    /\ orderData.notifyOnDelivery
    /\ ~view.submitDisabled
    /\ ENABLED SubmitOrder

====
